---- MODULE Spec2Model ----
(***************************************************************************)
(* Model of YamlDotNet.Core/ScalarEvent.cpp: the scalar event of a YAML    *)
(* event stream, either bound to a raw parsed record (lazy decode of       *)
(* anchor, tag and value) or detached (fields supplied to a constructor),  *)
(* and its serialization into a wire record (CreateEvent).                 *)
(***************************************************************************)
EXTENDS Integers, Sequences, FiniteSets

VARIABLES
    pc,        \* position: "new" before construction, "idle" between calls,
               \* "ce_init" / "ce_release" / "ce_check" inside CreateEvent
    ev,        \* the ScalarEvent object: NativeEvent and its private fields
    ctor,      \* the constructor that built the object and its arguments
    decodes,   \* number of StringConverter::Convert(raw bytes) calls per field
    lastOp,    \* the member called last
    ret,       \* what that call returned
    raised,    \* what that call raised: "none", "YamlException", "NullReferenceException"
    bufs,      \* CreateEvent's locals anchorBuffer, tagBuffer, valueBuffer
    live,      \* the buffers allocated by the current CreateEvent call and not yet deleted
    result,    \* CreateEvent's local result
    initCalls, \* invocations of yaml_scalar_event_initialize in the current CreateEvent call
    initArgs,  \* the arguments of that invocation
    wire       \* the wire record (the yaml_event_t CreateEvent is given)

vars == <<pc, ev, ctor, decodes, lastOp, ret, raised, bufs, live, result,
          initCalls, initArgs, wire>>

----------------------------------------------------------------------------
(* Bounds *)

\* longest value text, in characters
MaxLen == 1
\* cap on the decode counters
MaxDecodes == 2

----------------------------------------------------------------------------
(* Texts, byte buffers and the text buffer codec *)

\* the characters of the model: one that UTF-8 encodes in one byte, one in two
Chars == {"a", "e_acute"}

\* U+FFFD, what an invalid byte sequence decodes to
ReplacementChar == "U+FFFD"

RECURSIVE SeqsUpTo(_, _)
SeqsUpTo(S, n) ==
    IF n = 0 THEN {<<>>}
    ELSE LET shorter == SeqsUpTo(S, n - 1)
         IN  shorter \cup {Append(s, c) : s \in shorter, c \in S}

Texts(n) == SeqsUpTo(Chars, n)

\* a String^ : nullptr or a text
NullStr == [isNull |-> TRUE, chars |-> <<>>]
Str(t) == [isNull |-> FALSE, chars |-> t]

\* a yaml_char_t* : NULL or a byte buffer
NullBuf == [isNull |-> TRUE, bytes |-> <<>>]
Buf(b) == [isNull |-> FALSE, bytes |-> b]

CharBytes(c) == IF c = "a" THEN <<97>> ELSE <<195, 169>>

RECURSIVE Utf8Encode(_)
Utf8Encode(t) ==
    IF t = <<>> THEN <<>> ELSE CharBytes(Head(t)) \o Utf8Encode(Tail(t))

RECURSIVE Utf8Decode(_)
Utf8Decode(b) ==
    IF b = <<>> THEN <<>>
    ELSE IF Head(b) = 97 THEN <<"a">> \o Utf8Decode(Tail(b))
    ELSE IF Head(b) = 195 /\ Len(b) >= 2 /\ b[2] = 169
         THEN <<"e_acute">> \o Utf8Decode(Tail(Tail(b)))
    ELSE <<ReplacementChar>> \o Utf8Decode(Tail(b))

\* StringConverter::Convert(const yaml_char_t*): raw bytes to text; absent to absent
ConvertToString(buf) ==
    IF buf.isNull THEN NullStr ELSE Str(Utf8Decode(buf.bytes))

\* StringConverter::Convert(String^): text to a newly allocated buffer; absent to NULL
ConvertToBuffer(s) ==
    IF s.isNull THEN NullBuf ELSE Buf(Utf8Encode(s.chars))

----------------------------------------------------------------------------
(* Styles *)

ScalarStyles == {"Any", "Plain", "SingleQuoted", "DoubleQuoted", "Literal", "Folded"}

StyleCodes == {"YAML_ANY_SCALAR_STYLE", "YAML_PLAIN_SCALAR_STYLE",
               "YAML_SINGLE_QUOTED_SCALAR_STYLE", "YAML_DOUBLE_QUOTED_SCALAR_STYLE",
               "YAML_LITERAL_SCALAR_STYLE", "YAML_FOLDED_SCALAR_STYLE"}

\* the styles the inputs are drawn from: the constructors' default, the one the
\* emitter takes as "choose yourself", and one that is neither
SampleStyles == {"Plain", "Any", "DoubleQuoted"}
SampleStyleCodes == {"YAML_PLAIN_SCALAR_STYLE", "YAML_ANY_SCALAR_STYLE",
                     "YAML_DOUBLE_QUOTED_SCALAR_STYLE"}

\* the cast (ScalarStyle)nativeEvent->data.scalar.style
CastStyle(code) ==
    CASE code = "YAML_ANY_SCALAR_STYLE" -> "Any"
      [] code = "YAML_PLAIN_SCALAR_STYLE" -> "Plain"
      [] code = "YAML_SINGLE_QUOTED_SCALAR_STYLE" -> "SingleQuoted"
      [] code = "YAML_DOUBLE_QUOTED_SCALAR_STYLE" -> "DoubleQuoted"
      [] code = "YAML_LITERAL_SCALAR_STYLE" -> "Literal"
      [] code = "YAML_FOLDED_SCALAR_STYLE" -> "Folded"

----------------------------------------------------------------------------
(* Raw parsed records *)

\* NativeEvent == NULL
NoNative ==
    [isNull |-> TRUE, anchor |-> NullBuf, tag |-> NullBuf, value |-> NullBuf,
     length |-> 0, style |-> "YAML_ANY_SCALAR_STYLE",
     plain_implicit |-> 0, quoted_implicit |-> 0]

\* the anchor and tag names in use
AnchorNames == {<<"a">>}
TagNames == {<<"e_acute">>}

\* the scalar records a parser yields: anchor and tag may be absent, the value
\* is present and length is its size in bytes
RawRecords ==
    {[isNull |-> FALSE, anchor |-> a, tag |-> t, value |-> Buf(Utf8Encode(v)),
      length |-> Len(Utf8Encode(v)), style |-> s,
      plain_implicit |-> p, quoted_implicit |-> q] :
        a \in {NullBuf} \cup {Buf(Utf8Encode(n)) : n \in AnchorNames},
        t \in {NullBuf} \cup {Buf(Utf8Encode(n)) : n \in TagNames},
        v \in Texts(MaxLen),
        s \in SampleStyleCodes, p \in 0..1, q \in 0..1}

\* what callers pass to the write-path constructors
OptAnchors == {NullStr} \cup {Str(n) : n \in AnchorNames}
OptTags == {NullStr} \cup {Str(n) : n \in TagNames}
OptValues == {NullStr} \cup {Str(t) : t \in Texts(MaxLen)}

----------------------------------------------------------------------------
(* Construction *)

\* YamlEvent's part of the object and ScalarEvent's private fields
Object(native, _value, _tag, _anchor, _style, _isPlainImplicit, _isQuotedImplicit) ==
    [NativeEvent |-> native, value |-> _value, tag |-> _tag, anchor |-> _anchor,
     style |-> _style, isPlainImplicit |-> _isPlainImplicit,
     isQuotedImplicit |-> _isQuotedImplicit]

\* ScalarEvent(const yaml_event_t* nativeEvent)
ScalarEventNative(nativeEvent) ==
    Object(nativeEvent, NullStr, NullStr, NullStr,
           CastStyle(nativeEvent.style),
           nativeEvent.plain_implicit # 0,
           nativeEvent.quoted_implicit # 0)

\* ScalarEvent(String^ _value)
ScalarEvent1(_value) ==
    Object(NoNative, _value, NullStr, NullStr, "Plain", TRUE, TRUE)

\* ScalarEvent(String^ _value, String^ _tag)
ScalarEvent2(_value, _tag) ==
    Object(NoNative, _value, _tag, NullStr, "Plain", TRUE, TRUE)

\* ScalarEvent(String^ _value, String^ _tag, String^ _anchor)
ScalarEvent3(_value, _tag, _anchor) ==
    Object(NoNative, _value, _tag, _anchor, "Plain", TRUE, TRUE)

\* ScalarEvent(String^ _value, String^ _tag, String^ _anchor, ScalarStyle _style)
ScalarEvent4(_value, _tag, _anchor, _style) ==
    Object(NoNative, _value, _tag, _anchor, _style, TRUE, TRUE)

\* the six-argument constructor with the two flags crossed
ScalarEvent5Crossed(_value, _tag, _anchor, _style, _isPlainImplicit, _isQuotedImplicit) ==
    Object(NoNative, _value, _tag, _anchor, _style, _isQuotedImplicit, _isPlainImplicit)

\* ScalarEvent(_value, _tag, _anchor, _style, _isPlainImplicit, _isQuotedImplicit)
ScalarEvent5(_value, _tag, _anchor, _style, _isPlainImplicit, _isQuotedImplicit) ==
    Object(NoNative, _value, _tag, _anchor, _style, _isPlainImplicit, _isQuotedImplicit)

----------------------------------------------------------------------------
(* Accessors: each gives the object after the call (e), what the call      *)
(* returns (ret), what it raises (raised) and the decodes it made (dec)    *)

NoDecodes == [anchor |-> 0, tag |-> 0, value |-> 0]

\* Anchor::get decoding the record's tag bytes
AnchorGetFromTag(e) ==
    IF e.anchor.isNull /\ ~e.NativeEvent.isNull
    THEN LET a == ConvertToString(e.NativeEvent.tag)
         IN  [e |-> [e EXCEPT !.anchor = a], ret |-> a, dec |-> 1]
    ELSE [e |-> e, ret |-> e.anchor, dec |-> 0]

\* Anchor::get
AnchorGet(e) ==
    IF e.anchor.isNull /\ ~e.NativeEvent.isNull
    THEN LET a == ConvertToString(e.NativeEvent.anchor)
         IN  [e |-> [e EXCEPT !.anchor = a], ret |-> a, dec |-> 1]
    ELSE [e |-> e, ret |-> e.anchor, dec |-> 0]

\* Tag::get
TagGet(e) ==
    IF e.tag.isNull /\ ~e.NativeEvent.isNull
    THEN LET t == ConvertToString(e.NativeEvent.tag)
         IN  [e |-> [e EXCEPT !.tag = t], ret |-> t, dec |-> 1]
    ELSE [e |-> e, ret |-> e.tag, dec |-> 0]

\* Value::get
ValueGet(e) ==
    IF e.value.isNull /\ ~e.NativeEvent.isNull
    THEN LET v == ConvertToString(e.NativeEvent.value)
         IN  [e |-> [e EXCEPT !.value = v], ret |-> v, dec |-> 1]
    ELSE [e |-> e, ret |-> e.value, dec |-> 0]

\* String::Length on a String^: the character count, or a NullReferenceException
StringLength(s) ==
    IF s.isNull THEN [ret |-> 0, raised |-> "NullReferenceException"]
    ELSE [ret |-> Len(s.chars), raised |-> "none"]

\* Length::get preferring the cached value's character count
LengthGetFromCache(e) ==
    IF ~e.NativeEvent.isNull /\ e.value.isNull
    THEN [ret |-> e.NativeEvent.length, raised |-> "none"]
    ELSE StringLength(e.value)

\* Length::get
LengthGet(e) ==
    IF ~e.NativeEvent.isNull
    THEN [ret |-> e.NativeEvent.length, raised |-> "none"]
    ELSE StringLength(e.value)

\* IsPlainImplicit::get
IsPlainImplicitGet(e) == e.isPlainImplicit

\* IsQuotedImplicit::get
IsQuotedImplicitGet(e) == e.isQuotedImplicit

\* Style::get
StyleGet(e) == e.style

\* String::Format shows a null argument as the empty string
FormatArg(s) == IF s.isNull THEN <<>> ELSE s.chars

\* the label of format item {5}
PlainLabel(e) == IF IsPlainImplicitGet(e) THEN "plain_implicit" ELSE "plain_explicit"

\* the label of format item {6}, taken from IsQuotedImplicit
QuotedLabelFromQuoted(e) ==
    IF IsQuotedImplicitGet(e) THEN "quoted_implicit" ELSE "quoted_explicit"

\* the label of format item {6}
QuotedLabel(e) == IF IsPlainImplicitGet(e) THEN "quoted_implicit" ELSE "quoted_explicit"

\* ToString: the eight items of the format string, in order
ToStringGet(e) ==
    LET a == AnchorGet(e)
        t == TagGet(a.e)
        v == ValueGet(t.e)
        l == LengthGet(v.e)
    IN  [e |-> v.e,
         dec |-> [anchor |-> a.dec, tag |-> t.dec, value |-> v.dec],
         raised |-> l.raised,
         ret |-> IF l.raised # "none" THEN <<>>
                 ELSE <<"ScalarEvent", FormatArg(a.ret), FormatArg(t.ret),
                        FormatArg(v.ret), l.ret,
                        PlainLabel(v.e), QuotedLabel(v.e),
                        StyleGet(v.e)>>]

----------------------------------------------------------------------------
(* The state machine *)

NoBufs == [anchor |-> NullBuf, tag |-> NullBuf, value |-> NullBuf]

NoArgs ==
    [anchor |-> NullBuf, tag |-> NullBuf, value |-> NullBuf, length |-> 0,
     plain_implicit |-> 0, quoted_implicit |-> 0, style |-> "none"]

\* a yaml_event_t no initializer has filled in
BlankWire ==
    [set |-> FALSE, anchor |-> NullBuf, tag |-> NullBuf, value |-> NullBuf,
     length |-> 0, plain_implicit |-> 0, quoted_implicit |-> 0, style |-> "none"]

NoCtor ==
    [kind |-> "none", native |-> NoNative, value |-> NullStr, tag |-> NullStr,
     anchor |-> NullStr, style |-> "none", isPlainImplicit |-> FALSE,
     isQuotedImplicit |-> FALSE]

Init ==
    /\ pc = "new"
    /\ ev = ScalarEvent1(NullStr)
    /\ ctor = NoCtor
    /\ decodes = NoDecodes
    /\ lastOp = "none"
    /\ ret = <<>>
    /\ raised = "none"
    /\ bufs = NoBufs
    /\ live = {}
    /\ result = 0
    /\ initCalls = 0
    /\ initArgs = NoArgs
    /\ wire = BlankWire

Constructed(e, c) ==
    /\ pc' = "idle"
    /\ ev' = e
    /\ ctor' = c
    /\ lastOp' = "ScalarEvent"
    /\ UNCHANGED <<decodes, ret, raised, bufs, live, result, initCalls, initArgs, wire>>

NewNative ==
    /\ pc = "new"
    /\ \E n \in RawRecords :
        Constructed(ScalarEventNative(n), [NoCtor EXCEPT !.kind = "native", !.native = n])

New1 ==
    /\ pc = "new"
    /\ \E v \in OptValues :
        Constructed(ScalarEvent1(v), [NoCtor EXCEPT !.kind = "1", !.value = v])

New2 ==
    /\ pc = "new"
    /\ \E v \in OptValues, t \in OptTags :
        Constructed(ScalarEvent2(v, t), [NoCtor EXCEPT !.kind = "2", !.value = v, !.tag = t])

New3 ==
    /\ pc = "new"
    /\ \E v \in OptValues, t \in OptTags, a \in OptAnchors :
        Constructed(ScalarEvent3(v, t, a),
                    [NoCtor EXCEPT !.kind = "3", !.value = v, !.tag = t, !.anchor = a])

New4 ==
    /\ pc = "new"
    /\ \E v \in OptValues, t \in OptTags, a \in OptAnchors, s \in SampleStyles :
        Constructed(ScalarEvent4(v, t, a, s),
                    [NoCtor EXCEPT !.kind = "4", !.value = v, !.tag = t, !.anchor = a,
                                   !.style = s])

New5 ==
    /\ pc = "new"
    /\ \E v \in OptValues, t \in OptTags, a \in OptAnchors, s \in SampleStyles,
       p \in BOOLEAN, q \in BOOLEAN :
        Constructed(ScalarEvent5(v, t, a, s, p, q),
                    [NoCtor EXCEPT !.kind = "5", !.value = v, !.tag = t, !.anchor = a,
                                   !.style = s, !.isPlainImplicit = p,
                                   !.isQuotedImplicit = q])

\* the decode counters after a call that made the decodes d
Counted(d) ==
    [anchor |-> decodes.anchor + d.anchor, tag |-> decodes.tag + d.tag,
     value |-> decodes.value + d.value]

WithinCap(d) ==
    /\ d.anchor <= MaxDecodes
    /\ d.tag <= MaxDecodes
    /\ d.value <= MaxDecodes

\* a call of a read accessor from outside: the object, the counters and the outcome
Called(op, e, d, r, x) ==
    /\ pc = "idle"
    /\ WithinCap(Counted(d))
    /\ ev' = e
    /\ decodes' = Counted(d)
    /\ lastOp' = op
    /\ ret' = r
    /\ raised' = x
    /\ UNCHANGED <<pc, ctor, bufs, live, result, initCalls, initArgs, wire>>

ReadAnchor ==
    LET g == AnchorGet(ev)
    IN  Called("Anchor", g.e, [NoDecodes EXCEPT !.anchor = g.dec], g.ret, "none")

ReadTag ==
    LET g == TagGet(ev)
    IN  Called("Tag", g.e, [NoDecodes EXCEPT !.tag = g.dec], g.ret, "none")

ReadValue ==
    LET g == ValueGet(ev)
    IN  Called("Value", g.e, [NoDecodes EXCEPT !.value = g.dec], g.ret, "none")

ReadLength ==
    LET g == LengthGet(ev)
    IN  Called("Length", ev, NoDecodes, g.ret, g.raised)

ReadIsPlainImplicit ==
    Called("IsPlainImplicit", ev, NoDecodes, IsPlainImplicitGet(ev), "none")

ReadIsQuotedImplicit ==
    Called("IsQuotedImplicit", ev, NoDecodes, IsQuotedImplicitGet(ev), "none")

ReadStyle ==
    Called("Style", ev, NoDecodes, StyleGet(ev), "none")

ToString ==
    LET g == ToStringGet(ev)
    IN  Called("ToString", g.e, g.dec, g.ret, g.raised)

\* the emitter primitive yaml_scalar_event_initialize: on success (r = 1) the
\* record holds copies of the anchor and the tag and the first `length` bytes
\* of the value buffer; on failure the record is left as it was
yaml_scalar_event_initialize(w, args, r) ==
    IF r = 1
    THEN [set |-> TRUE, anchor |-> args.anchor, tag |-> args.tag,
          value |-> Buf(SubSeq(args.value.bytes, 1, args.length)),
          length |-> args.length, plain_implicit |-> args.plain_implicit,
          quoted_implicit |-> args.quoted_implicit, style |-> args.style]
    ELSE w

\* what the initializer can report
InitResults == {0, 1}

BufferNames == {"anchor", "tag", "value"}

\* the arguments CreateEvent passes to the initializer (all but the length)
InitializeArgs(e, b, length) ==
    [anchor |-> b.anchor, tag |-> b.tag, value |-> b.value, length |-> length,
     plain_implicit |-> IF IsPlainImplicitGet(e) THEN 1 ELSE 0,
     quoted_implicit |-> IF IsQuotedImplicitGet(e) THEN 1 ELSE 0,
     style |-> "YAML_ANY_SCALAR_STYLE"]

\* CreateEvent, the three StringConverter::Convert calls
CE_Encode ==
    LET a == AnchorGet(ev)
        t == TagGet(a.e)
        v == ValueGet(t.e)
        d == [anchor |-> a.dec, tag |-> t.dec, value |-> v.dec]
        b == [anchor |-> ConvertToBuffer(a.ret), tag |-> ConvertToBuffer(t.ret),
              value |-> ConvertToBuffer(v.ret)]
    IN  /\ pc = "idle"
        /\ WithinCap(Counted(d))
        /\ pc' = "ce_init"
        /\ ev' = v.e
        /\ decodes' = Counted(d)
        /\ lastOp' = "CreateEvent"
        /\ ret' = <<>>
        /\ raised' = "none"
        /\ bufs' = b
        /\ live' = {n \in BufferNames : ~b[n].isNull}
        /\ initCalls' = 0
        /\ UNCHANGED <<ctor, result, initArgs, wire>>

\* CreateEvent, the call of yaml_scalar_event_initialize: Value->Length among
\* its arguments raises on an absent value and the call is never made
CE_Initialize ==
    LET v == ValueGet(ev)
        l == StringLength(v.ret)
        d == [NoDecodes EXCEPT !.value = v.dec]
    IN  /\ pc = "ce_init"
        /\ WithinCap(Counted(d))
        /\ ev' = v.e
        /\ decodes' = Counted(d)
        /\ \/ /\ l.raised # "none"
              /\ raised' = l.raised
              /\ pc' = "idle"
              /\ bufs' = NoBufs
              /\ UNCHANGED <<result, initCalls, initArgs, wire>>
           \/ /\ l.raised = "none"
              /\ \E r \in InitResults :
                    /\ result' = r
                    /\ initArgs' = InitializeArgs(v.e, bufs, l.ret)
                    /\ wire' = yaml_scalar_event_initialize(
                                   wire, InitializeArgs(v.e, bufs, l.ret), r)
              /\ initCalls' = initCalls + 1
              /\ pc' = "ce_release"
              /\ UNCHANGED <<raised, bufs>>
        /\ UNCHANGED <<ctor, lastOp, ret, live>>

\* CreateEvent, the three delete[]
CE_Release ==
    /\ pc = "ce_release"
    /\ live' = live \ {n \in BufferNames : ~bufs[n].isNull}
    /\ pc' = "ce_check"
    /\ UNCHANGED <<ev, ctor, decodes, lastOp, ret, raised, bufs, result, initCalls,
                   initArgs, wire>>

\* CreateEvent, the test of result and the return
CE_Check ==
    /\ pc = "ce_check"
    /\ raised' = IF result # 1 THEN "YamlException" ELSE "none"
    /\ pc' = "idle"
    /\ bufs' = NoBufs
    /\ UNCHANGED <<ev, ctor, decodes, lastOp, ret, live, result, initCalls,
                   initArgs, wire>>

Next ==
    \/ NewNative
    \/ New1
    \/ New2
    \/ New3
    \/ New4
    \/ New5
    \/ ReadAnchor
    \/ ReadTag
    \/ ReadValue
    \/ ReadLength
    \/ ReadIsPlainImplicit
    \/ ReadIsQuotedImplicit
    \/ ReadStyle
    \/ ToString
    \/ CE_Encode
    \/ CE_Initialize
    \/ CE_Release
    \/ CE_Check

Spec == Init /\ [][Next]_vars

----------------------------------------------------------------------------
(* Properties *)

Bound == ~ev.NativeEvent.isNull

\* a CreateEvent call has come to its end, by return or by raise
CreateEventEnded == pc = "idle" /\ lastOp = "CreateEvent"

ReadAccessors ==
    {"Anchor", "Tag", "Value", "Length", "IsPlainImplicit", "IsQuotedImplicit", "Style"}

\* C1: each of anchor, tag and value of a bound event is decoded from the raw
\* record at most once in the object's lifetime, whatever is read and however
\* often, also when the record's anchor or tag is absent.
C1_DecodedAtMostOnce ==
    /\ decodes.anchor <= 1
    /\ decodes.tag <= 1
    /\ decodes.value <= 1

\* C2: when a CreateEvent call has returned or raised, none of the buffers it
\* allocated is still allocated, for every event a constructor can produce and
\* every initializer outcome.
C2_BuffersReleasedOnExit ==
    CreateEventEnded => live = {}

\* C3: CreateEvent raises YamlException exactly when the initializer reported
\* a result other than 1, raises it only once the buffers are released,
\* completes without error when the initializer reported 1, and lets no other
\* failure out.
C3_OnlyYamlException ==
    /\ pc = "ce_check" => live = {}
    /\ CreateEventEnded =>
        /\ raised \in {"none", "YamlException"}
        /\ raised = "YamlException" <=> (initCalls = 1 /\ result # 1)
        /\ raised = "YamlException" => live = {}

\* C4: a read of Anchor, Tag, Value, Length, IsPlainImplicit, IsQuotedImplicit
\* or Style raises nothing, on every event a constructor can produce, in any
\* order and any number of times.
C4_ReadAccessorsTotal ==
    lastOp \in ReadAccessors => raised = "none"

\* C5: what Length returns is the raw record's length field on a bound event,
\* whether or not Value is cached and whatever its character count, and the
\* character count of Value on a detached event.
C5_LengthAuthority ==
    (lastOp = "Length" /\ raised = "none") =>
        IF Bound THEN ret = ev.NativeEvent.length
        ELSE ret = Len(ev.value.chars)

\* a bound event whose value is cached and has fewer characters than the raw
\* record has bytes has returned its Length
C5_Witness ==
    /\ lastOp = "Length"
    /\ Bound
    /\ ~ev.value.isNull
    /\ Len(ev.value.chars) < ev.NativeEvent.length
    /\ ret = ev.NativeEvent.length

\* C6: when CreateEvent on a bound event is given an initializer that succeeds
\* and copies the passed length from the passed value buffer, the call succeeds
\* and the wire record's value buffer decodes to the text Value returns.
C6_BoundValueRoundTrips ==
    (CreateEventEnded /\ Bound /\ initCalls = 1 /\ result = 1) =>
        /\ raised = "none"
        /\ wire.set
        /\ ConvertToString(wire.value) = ValueGet(ev).ret

\* C7: provenance is fixed at construction: an event built from a raw record
\* stays bound to it and each of its anchor, tag and value is undecoded or the
\* text decoded from that record; an event built by a write-path constructor
\* stays detached, holds the anchor, tag and value it was given and never
\* decodes anything.
C7_ProvenanceFixed ==
    pc # "new" =>
        IF ctor.kind = "native"
        THEN /\ Bound
             /\ ev.NativeEvent = ctor.native
             /\ \A f \in {"anchor", "tag", "value"} :
                    ev[f].isNull \/ ev[f] = ConvertToString(ctor.native[f])
        ELSE /\ ~Bound
             /\ ev.anchor = ctor.anchor
             /\ ev.tag = ctor.tag
             /\ ev.value = ctor.value
             /\ decodes = NoDecodes

\* a bound event with anchor, tag and value decoded has been through CreateEvent
C7_Witness ==
    /\ CreateEventEnded
    /\ ctor.kind = "native"
    /\ ~ev.anchor.isNull
    /\ ~ev.tag.isNull
    /\ ~ev.value.isNull
    /\ decodes.value = 1

\* C8: after each of the five write-path constructors, Value, Tag, Anchor,
\* Style, IsPlainImplicit and IsQuotedImplicit return the arguments given and,
\* for the arguments the overload omits, tag absent, anchor absent, style
\* Plain, isPlainImplicit true, isQuotedImplicit true.
C8_ConstructorReadBack ==
    ctor.kind \in {"1", "2", "3", "4", "5"} =>
        /\ lastOp = "Value" => ret = ctor.value
        /\ lastOp = "Tag" =>
              ret = IF ctor.kind \in {"2", "3", "4", "5"} THEN ctor.tag ELSE NullStr
        /\ lastOp = "Anchor" =>
              ret = IF ctor.kind \in {"3", "4", "5"} THEN ctor.anchor ELSE NullStr
        /\ lastOp = "Style" =>
              ret = IF ctor.kind \in {"4", "5"} THEN ctor.style ELSE "Plain"
        /\ lastOp = "IsPlainImplicit" =>
              ret = IF ctor.kind = "5" THEN ctor.isPlainImplicit ELSE TRUE
        /\ lastOp = "IsQuotedImplicit" =>
              ret = IF ctor.kind = "5" THEN ctor.isQuotedImplicit ELSE TRUE

\* the six-argument constructor was given ("a", tag, anchor, DoubleQuoted,
\* false, true) and IsPlainImplicit has been read back
C8_Witness ==
    /\ ctor.kind = "5"
    /\ ctor.value = Str(<<"a">>)
    /\ ~ctor.tag.isNull
    /\ ~ctor.anchor.isNull
    /\ ctor.style = "DoubleQuoted"
    /\ ~ctor.isPlainImplicit
    /\ ctor.isQuotedImplicit
    /\ lastOp = "IsPlainImplicit"
    /\ ret = FALSE

\* C9: each CreateEvent call invokes the initializer exactly once, with the
\* encodings of Anchor, Tag and Value, the character count of Value, each
\* implicit flag as 1 or 0 in its own parameter, and YAML_ANY_SCALAR_STYLE.
C9_InitializerCalledOnce ==
    CreateEventEnded =>
        /\ initCalls = 1
        /\ initArgs =
             [anchor |-> ConvertToBuffer(AnchorGet(ev).ret),
              tag |-> ConvertToBuffer(TagGet(ev).ret),
              value |-> ConvertToBuffer(ValueGet(ev).ret),
              length |-> Len(ValueGet(ev).ret.chars),
              plain_implicit |-> IF ev.isPlainImplicit THEN 1 ELSE 0,
              quoted_implicit |-> IF ev.isQuotedImplicit THEN 1 ELSE 0,
              style |-> "YAML_ANY_SCALAR_STYLE"]

\* C10: in the string ToString produces both implicit labels follow
\* isPlainImplicit, so the event with the other isQuotedImplicit renders the
\* same.
C10_LabelsFromPlainImplicit ==
    (lastOp = "ToString" /\ raised = "none") =>
        /\ ret[6] = IF ev.isPlainImplicit THEN "plain_implicit" ELSE "plain_explicit"
        /\ ret[7] = IF ev.isPlainImplicit THEN "quoted_implicit" ELSE "quoted_explicit"
        /\ ToStringGet([ev EXCEPT !.isQuotedImplicit = ~@]).ret = ret

\* an event that is plain-implicit and not quoted-implicit has been rendered
C10_Witness ==
    /\ lastOp = "ToString"
    /\ raised = "none"
    /\ ev.isPlainImplicit
    /\ ~ev.isQuotedImplicit
    /\ ret[7] = "quoted_implicit"

====
